---- MODULE Spec2Model ----
(***************************************************************************)
(* Model of securestore-rs: the SecretsManager facade (src/src/lib.rs),    *)
(* KeySource::extract_keys, and the vault / key-file collaborators it      *)
(* calls into (mod shared, mod errors).                                    *)
(*                                                                         *)
(* The file system holds one vault file (the path every session is opened  *)
(* on, "./secrets.json" in src/src/tests/secrets.rs) and one key file.     *)
(* The program holds one manager at a time in the variable sman; a later   *)
(* new or load that succeeds rebinds it (a new session).                   *)
(*                                                                         *)
(* Byte arrays are sequences over Byte.  Ciphertexts and MACs are symbolic *)
(* terms: a ciphertext remembers the plaintext, key and nonce it was made  *)
(* from and decrypts to that plaintext only under that key and nonce.      *)
(***************************************************************************)
EXTENDS Integers, Sequences, FiniteSets, TLC

(* ---------------------------- bounds ---------------------------------- *)

\* shared::KEY_LENGTH scaled down: number of bytes of one key.
KEY_LENGTH == 1

\* Persisted salts (Vault.iv when present) are 1..MaxSalt.
MaxSalt == 2

\* Passwords are 1..MaxPassword (the value stands for password.as_bytes()).
MaxPassword == 2

\* Entry nonces drawn by the random source are 1..MaxNonce.
MaxNonce == 1

\* Number of operations in one run of the program that change a file or
\* the manager (a failed call or a retrieve changes neither and is not counted).
MaxOps == 5

(* --------------------------- constants -------------------------------- *)

\* shared::KEY_COUNT: an encryption key and an HMAC key.
KEY_COUNT == 2

\* u8, scaled down to one bit.
Byte == {0, 1}
Salts == 1..MaxSalt
Passwords == 1..MaxPassword
Values == {"bar", "baz"}
Nonces == 1..MaxNonce
KeyPaths == {"keys.bin"}
Names == {"foo"}
Managers == {"sman"}

\* What decrypting under the wrong key or nonce, or a modified ciphertext, yields.
Garbage == "garbage"

RECURSIVE ByteSeqs(_)
ByteSeqs(n) ==
    IF n = 0 THEN {<<>>}
    ELSE {Append(q, b) : q \in ByteSeqs(n - 1), b \in Byte}

RECURSIVE ByteSeqsUpTo(_)
ByteSeqsUpTo(n) ==
    IF n = 0 THEN {<<>>} ELSE ByteSeqs(n) \cup ByteSeqsUpTo(n - 1)

\* [u8; KEY_LENGTH]
KeyBytes == ByteSeqs(KEY_LENGTH)

\* [0u8; n]
Zeroes(n) == [i \in 1..n |-> 0]

\* enum KeySource
Generate == [kind |-> "Generate", path |-> "", password |-> 0]
File(p) == [kind |-> "File", path |-> p, password |-> 0]
Password(pw) == [kind |-> "Password", path |-> "", password |-> pw]
KeySource ==
    {Generate} \cup {File(p) : p \in KeyPaths}
    \cup {Password(pw) : pw \in Passwords}

\* struct Keys
Keys(e, h) == [encryption |-> e, hmac |-> h]

\* Option<[u8; IV_SIZE]>
NoneIV == [some |-> FALSE, val |-> 0]
SomeIV(x) == [some |-> TRUE, val |-> x]

\* The two buffers of extract_keys before any arm has filled them.
ZeroKeys == Keys(Zeroes(KEY_LENGTH), Zeroes(KEY_LENGTH))

\* What the environment decides during one key resolution: the bytes the
\* random source returns, which rand_bytes call fails (0: none), and whether
\* pbkdf2_hmac succeeds.
Env ==
    [enc : KeyBytes, hmac : KeyBytes, rngFail : 0..KEY_COUNT, kdfOk : BOOLEAN]

\* The part of Env a key source consults: the random source for Generate,
\* the key derivation for Password (the random source is there, unused),
\* nothing for File.
EnvFor(ks) ==
    CASE ks.kind = "Generate" -> {e \in Env : e.kdfOk}
      [] ks.kind = "Password" ->
            {e \in Env : e.rngFail = 0 /\ e.hmac = Zeroes(KEY_LENGTH)}
      [] OTHER ->
            {e \in Env : e.kdfOk /\ e.rngFail = 0 /\ e.enc = Zeroes(KEY_LENGTH)
                                  /\ e.hmac = Zeroes(KEY_LENGTH)}

\* A key file: absent, or a flat sequence of bytes.
NoKeyFile == [exists |-> FALSE, bytes |-> <<>>]
KeyFile(b) == [exists |-> TRUE, bytes |-> b]

\* openssl::pkcs5::pbkdf2_hmac: a deterministic function of password and salt
\* filling n bytes.
pbkdf2_hmac(password, salt, n) ==
    [i \in 1..n |-> (password + salt * i) % Cardinality(Byte)]

\* KeySource::Generate arm: two rand_bytes calls, each .expect()ed.
extract_generate(env) ==
    IF env.rngFail = 1
    THEN [res |-> "panic", keys |-> ZeroKeys, calls |-> 1]
    ELSE IF env.rngFail = 2
    THEN [res |-> "panic", keys |-> ZeroKeys, calls |-> 2]
    ELSE [res |-> "Ok", keys |-> Keys(env.enc, env.hmac), calls |-> 2]

\* extract_file reading the auth key first: the two halves of the key file
\* end up in each other's buffer.
extract_file_swapped(path, keyFiles) ==
    LET f == keyFiles[path]
    IN  IF ~f.exists
        THEN [res |-> "Io", keys |-> ZeroKeys, calls |-> 1]
        ELSE IF Len(f.bytes) < KEY_LENGTH
        THEN [res |-> "Io", keys |-> ZeroKeys, calls |-> 2]
        ELSE IF Len(f.bytes) < 2 * KEY_LENGTH
        THEN [res |-> "Io", keys |-> ZeroKeys, calls |-> 3]
        ELSE [res |-> "Ok",
              keys |-> Keys(SubSeq(f.bytes, KEY_LENGTH + 1, 2 * KEY_LENGTH),
                            SubSeq(f.bytes, 1, KEY_LENGTH)),
              calls |-> 3]

\* extract_file with read instead of read_exact: a short read leaves the rest
\* of the zeroed buffers as they are and is not an error.
extract_file_zero_padded(path, keyFiles) ==
    LET f == keyFiles[path]
        padded == IF f.exists
                  THEN SubSeq(f.bytes \o Zeroes(2 * KEY_LENGTH), 1, 2 * KEY_LENGTH)
                  ELSE Zeroes(2 * KEY_LENGTH)
    IN  IF ~f.exists
        THEN [res |-> "Io", keys |-> ZeroKeys, calls |-> 1]
        ELSE [res |-> "Ok",
              keys |-> Keys(SubSeq(padded, 1, KEY_LENGTH),
                            SubSeq(padded, KEY_LENGTH + 1, 2 * KEY_LENGTH)),
              calls |-> 3]

\* KeySource::File arm: File::open, then read_exact twice; each error is
\* mapped to Error::Io and returned.
extract_file(path, keyFiles) ==
    LET f == keyFiles[path]
    IN  IF ~f.exists
        THEN [res |-> "Io", keys |-> ZeroKeys, calls |-> 1]
        ELSE IF Len(f.bytes) < KEY_LENGTH
        THEN [res |-> "Io", keys |-> ZeroKeys, calls |-> 2]
        ELSE IF Len(f.bytes) < 2 * KEY_LENGTH
        THEN [res |-> "Io", keys |-> ZeroKeys, calls |-> 3]
        ELSE [res |-> "Ok",
              keys |-> Keys(SubSeq(f.bytes, 1, KEY_LENGTH),
                            SubSeq(f.bytes, KEY_LENGTH + 1, 2 * KEY_LENGTH)),
              calls |-> 3]

\* extract_password with unwrap_or_default on the salt: an absent salt is
\* taken to be all zeroes.
extract_password_zero_salt(password, iv, env) ==
    IF ~env.kdfOk
    THEN [res |-> "panic", keys |-> ZeroKeys, calls |-> 1]
    ELSE LET salt == IF iv.some THEN iv.val ELSE 0
             key_data == pbkdf2_hmac(password, salt, KEY_COUNT * KEY_LENGTH)
         IN  [res |-> "Ok",
              keys |-> Keys(SubSeq(key_data, 0 * KEY_LENGTH + 1, 1 * KEY_LENGTH),
                            SubSeq(key_data, 1 * KEY_LENGTH + 1, 2 * KEY_LENGTH)),
              calls |-> 1]

\* extract_password salting the derivation with bytes drawn from the random
\* source at each call instead of the vault's persisted salt.
extract_password_fresh_salt(password, iv, env) ==
    IF ~iv.some
    THEN [res |-> "MissingVaultIV", keys |-> ZeroKeys, calls |-> 0]
    ELSE IF ~env.kdfOk
    THEN [res |-> "panic", keys |-> ZeroKeys, calls |-> 1]
    ELSE LET key_data == pbkdf2_hmac(password, env.enc[1],
                                     KEY_COUNT * KEY_LENGTH)
         IN  [res |-> "Ok",
              keys |-> Keys(SubSeq(key_data, 0 * KEY_LENGTH + 1, 1 * KEY_LENGTH),
                            SubSeq(key_data, 1 * KEY_LENGTH + 1, 2 * KEY_LENGTH)),
              calls |-> 1]

\* KeySource::Password arm: the salt must be present; one pbkdf2_hmac call,
\* .expect()ed, fills KEY_COUNT * KEY_LENGTH bytes that are split in two.
extract_password(password, iv, env) ==
    IF ~iv.some
    THEN [res |-> "MissingVaultIV", keys |-> ZeroKeys, calls |-> 0]
    ELSE IF ~env.kdfOk
    THEN [res |-> "panic", keys |-> ZeroKeys, calls |-> 1]
    ELSE LET key_data == pbkdf2_hmac(password, iv.val, KEY_COUNT * KEY_LENGTH)
         IN  [res |-> "Ok",
              keys |-> Keys(SubSeq(key_data, 0 * KEY_LENGTH + 1, 1 * KEY_LENGTH),
                            SubSeq(key_data, 1 * KEY_LENGTH + 1, 2 * KEY_LENGTH)),
              calls |-> 1]

\* extract_keys whose Password arm fills the buffers from the random source,
\* as the Generate arm does.
extract_keys_password_from_rng(ks, iv, keyFiles, env) ==
    CASE ks.kind = "Generate" -> extract_generate(env)
      [] ks.kind = "File" -> extract_file(ks.path, keyFiles)
      [] ks.kind = "Password" -> extract_generate(env)

\* KeySource::extract_keys
extract_keys(ks, iv, keyFiles, env) ==
    CASE ks.kind = "Generate" -> extract_generate(env)
      [] ks.kind = "File" -> extract_file(ks.path, keyFiles)
      [] ks.kind = "Password" -> extract_password(ks.password, iv, env)

(* ------------------- vault, entries, key files ------------------------- *)

\* The path every manager of the model is opened on.
VaultPath == "./secrets.json"

NoSource == [kind |-> "None", path |-> "", password |-> 0]

\* Symmetric encryption under an IV: the ciphertext of pt under key and nonce.
Encrypt(pt, key, nonce) ==
    [pt |-> pt, key |-> key, nonce |-> nonce, flip |-> FALSE]

\* Decryption returns the plaintext only for the unmodified ciphertext under
\* the key and nonce it was made with.
Decrypt(ct, key, nonce) ==
    IF ct.key = key /\ ct.nonce = nonce /\ ~ct.flip THEN ct.pt ELSE Garbage

\* MAC over (nonce || ciphertext) under the auth key.
Mac(key, nonce, ct) ==
    [key |-> key, nonce |-> nonce, ct |-> ct, flip |-> FALSE]

NoCt == Encrypt(Garbage, Zeroes(KEY_LENGTH), 0)

\* An absent entry of the name -> entry mapping.  `by` is history: the key
\* source of the manager that wrote the entry.
NoEntry ==
    [present |-> FALSE, nonce |-> 0, ct |-> NoCt,
     mac |-> Mac(Zeroes(KEY_LENGTH), 0, NoCt), by |-> NoSource]

\* Vault entry encryption: encrypt under the encryption key with a fresh
\* nonce, then MAC (nonce || ciphertext) under the auth key.
encrypt(pt, keys, nonce) ==
    LET ct == Encrypt(pt, keys.encryption, nonce)
    IN  [present |-> TRUE, nonce |-> nonce, ct |-> ct,
         mac |-> Mac(keys.hmac, nonce, ct), by |-> NoSource]

\* struct Vault
Vault(iv, secrets) == [iv |-> iv, secrets |-> secrets]
EmptyVault(iv) == Vault(iv, [n \in Names |-> NoEntry])

\* The vault file at VaultPath: absent, not a vault, or a serialized Vault.
AbsentFile == [kind |-> "Absent", vault |-> EmptyVault(NoneIV)]
InvalidFile == [kind |-> "Invalid", vault |-> EmptyVault(NoneIV)]
VaultFile(v) == [kind |-> "Vault", vault |-> v]

\* struct SecretsManager; a manager variable that holds none is not open.
SecretsManager(vault, keys) ==
    [open |-> TRUE, vault |-> vault, path |-> VaultPath, keys |-> keys]
NoManager ==
    [open |-> FALSE, vault |-> EmptyVault(NoneIV), path |-> VaultPath,
     keys |-> ZeroKeys]

\* Vault::from_file: reads and parses the vault file.
from_file(file) ==
    CASE file.kind = "Absent" -> [res |-> "Io", vault |-> EmptyVault(NoneIV)]
      [] file.kind = "Invalid" ->
            [res |-> "Serialization", vault |-> EmptyVault(NoneIV)]
      [] file.kind = "Vault" -> [res |-> "Ok", vault |-> file.vault]

\* Vault::save: writes salt and entries over the file; a failed write leaves
\* the file as it was.
vault_save(vault, file, ioOk) ==
    IF ioOk THEN [res |-> "Ok", file |-> VaultFile(vault)]
    ELSE [res |-> "Io", file |-> file]

\* Keys::export: encryption key bytes followed by auth key bytes.
export(keys, keyFile, ioOk) ==
    IF ioOk
    THEN [res |-> "Ok", file |-> KeyFile(keys.encryption \o keys.hmac)]
    ELSE [res |-> "Io", file |-> keyFile]

(* ------------------------- SecretsManager ------------------------------ *)

\* SecretsManager::new
new(file, ks, keyFiles, env) ==
    LET v == from_file(file)
    IN  IF v.res # "Ok"
        THEN [res |-> v.res, mgr |-> NoManager, calls |-> 1]
        ELSE LET k == extract_keys(ks, v.vault.iv, keyFiles, env)
             IN  IF k.res # "Ok"
                 THEN [res |-> k.res, mgr |-> NoManager, calls |-> 1 + k.calls]
                 ELSE [res |-> "Ok", mgr |-> SecretsManager(v.vault, k.keys),
                       calls |-> 1 + k.calls]

\* load falling back to an empty vault when the file cannot be read.
load_or_create(file, ks, keyFiles, env) ==
    LET v == from_file(file)
        vault == IF v.res = "Ok" THEN v.vault ELSE EmptyVault(NoneIV)
        k == extract_keys(ks, vault.iv, keyFiles, env)
    IN  IF k.res # "Ok"
        THEN [res |-> k.res, mgr |-> NoManager, calls |-> 1 + k.calls]
        ELSE [res |-> "Ok", mgr |-> SecretsManager(vault, k.keys),
              calls |-> 1 + k.calls]

\* SecretsManager::load
load(file, ks, keyFiles, env) ==
    LET v == from_file(file)
    IN  IF v.res # "Ok"
        THEN [res |-> v.res, mgr |-> NoManager, calls |-> 1]
        ELSE LET k == extract_keys(ks, v.vault.iv, keyFiles, env)
             IN  IF k.res # "Ok"
                 THEN [res |-> k.res, mgr |-> NoManager, calls |-> 1 + k.calls]
                 ELSE [res |-> "Ok", mgr |-> SecretsManager(v.vault, k.keys),
                       calls |-> 1 + k.calls]

\* save writing the entries without the vault's salt.
save_dropping_salt(mgr, file, ioOk) ==
    vault_save(Vault(NoneIV, mgr.vault.secrets), file, ioOk)

\* SecretsManager::save
save(mgr, file, ioOk) == vault_save(mgr.vault, file, ioOk)

\* SecretsManager::export_keys
export_keys(mgr, keyFile, ioOk) == export(mgr.keys, keyFile, ioOk)

\* SecretsManager::set: encrypts the value and replaces the entry of the name.
set(mgr, name, value, nonce) ==
    [mgr EXCEPT !.vault.secrets[name] = encrypt(value, mgr.keys, nonce)]

\* retrieve decrypting before it compares the MAC.
retrieve_decrypt_first(mgr, name, wellFormed) ==
    LET e == mgr.vault.secrets[name]
        pt == Decrypt(e.ct, mgr.keys.encryption, e.nonce)
    IN  IF ~e.present
        THEN [res |-> "NotFound", val |-> Garbage, decrypted |-> FALSE]
        ELSE IF Mac(mgr.keys.hmac, e.nonce, e.ct) # e.mac
        THEN [res |-> "AuthenticationFailure", val |-> Garbage,
              decrypted |-> TRUE]
        ELSE IF pt = Garbage /\ ~wellFormed
        THEN [res |-> "Serialization", val |-> Garbage, decrypted |-> TRUE]
        ELSE [res |-> "Ok", val |-> pt, decrypted |-> TRUE]

\* SecretsManager::retrieve: NotFound for an absent name; otherwise the MAC
\* over the stored (nonce, ciphertext) is recomputed and compared first, and
\* only on a match is the ciphertext decrypted and the value deserialized
\* (wellFormed: whether bytes that are not the original deserialize).
retrieve(mgr, name, wellFormed) ==
    LET e == mgr.vault.secrets[name]
    IN  IF ~e.present
        THEN [res |-> "NotFound", val |-> Garbage, decrypted |-> FALSE]
        ELSE IF Mac(mgr.keys.hmac, e.nonce, e.ct) # e.mac
        THEN [res |-> "AuthenticationFailure", val |-> Garbage,
              decrypted |-> FALSE]
        ELSE LET pt == Decrypt(e.ct, mgr.keys.encryption, e.nonce)
             IN  IF pt = Garbage /\ ~wellFormed
                 THEN [res |-> "Serialization", val |-> Garbage,
                       decrypted |-> TRUE]
                 ELSE [res |-> "Ok", val |-> pt, decrypted |-> TRUE]

(* ------------------------------ state ---------------------------------- *)

VARIABLES
    vaultFile,  \* the file at VaultPath
    keyFiles,   \* key path -> key file
    managers,   \* manager variable -> SecretsManager, or NoManager
    hist,       \* per manager: how it was opened and what it held then
    exported,   \* key path -> the Keys export_keys last wrote there
    derived,    \* password -> the salt and Keys of its first derivation
    last,       \* the last operation, its arguments and its result
    ops         \* number of operations that changed a file or the manager

vars == <<vaultFile, keyFiles, managers, hist, exported, derived, last, ops>>

NoExport == [some |-> FALSE, val |-> ZeroKeys]

NoDerived == [some |-> FALSE, iv |-> NoneIV, keys |-> ZeroKeys]

NoHist ==
    [src |-> NoSource, iv0 |-> NoneIV, keys0 |-> ZeroKeys,
     imported |-> NoExport]

Last(op, m, ks, name, pre, res, val, calls, decrypted) ==
    [op |-> op, m |-> m, src |-> ks, name |-> name, pre |-> pre, res |-> res,
     val |-> val, calls |-> calls, decrypted |-> decrypted]

\* The files the program may find when it starts: no vault file, a file that
\* is no vault, or an empty vault with or without a salt; any key files.
Init ==
    /\ vaultFile \in
         {AbsentFile, InvalidFile, VaultFile(EmptyVault(NoneIV))}
         \cup {VaultFile(EmptyVault(SomeIV(x))) : x \in Salts}
    /\ keyFiles \in
         [KeyPaths ->
            {NoKeyFile} \cup {KeyFile(b) : b \in ByteSeqsUpTo(2 * KEY_LENGTH)}]
    /\ managers = [m \in Managers |-> NoManager]
    /\ hist = [m \in Managers |-> NoHist]
    /\ exported = [p \in KeyPaths |-> NoExport]
    /\ derived = [pw \in Passwords |-> NoDerived]
    /\ last = Last("init", "sman", NoSource, "", vaultFile.kind, "Ok", Garbage,
                   0, FALSE)
    /\ ops = 0

\* An operation that changes a file or the manager is counted, and no more
\* than MaxOps of them happen.
Count(changes) ==
    /\ changes => ops < MaxOps
    /\ ops' = IF changes THEN ops + 1 ELSE ops

\* The result r of new or load lands in manager variable m: Ok binds the
\* variable, an Err leaves every variable as it was, a panic ends the process
\* and with it every manager.
Open(op, m, ks, r) ==
    /\ managers' =
         CASE r.res = "Ok" -> [managers EXCEPT ![m] = r.mgr]
           [] r.res = "panic" -> [x \in Managers |-> NoManager]
           [] OTHER -> managers
    /\ hist' =
         CASE r.res = "Ok" ->
                [hist EXCEPT ![m] =
                   [src |-> ks, iv0 |-> r.mgr.vault.iv,
                    keys0 |-> r.mgr.keys,
                    imported |-> IF ks.kind = "File" THEN exported[ks.path]
                                 ELSE NoExport]]
           [] r.res = "panic" -> [x \in Managers |-> NoHist]
           [] OTHER -> hist
    /\ derived' =
         IF r.res = "Ok" /\ ks.kind = "Password" /\ ~derived[ks.password].some
         THEN [derived EXCEPT
                 ![ks.password] = [some |-> TRUE, iv |-> r.mgr.vault.iv,
                              keys |-> r.mgr.keys]]
         ELSE derived
    /\ last' = Last(op, m, ks, "", vaultFile.kind, r.res, Garbage, r.calls, FALSE)
    /\ Count(r.res \in {"Ok", "panic"})
    /\ UNCHANGED <<vaultFile, keyFiles, exported>>

\* let m = SecretsManager::new(VaultPath, ks)
New(m, ks, env) ==
    /\ env \in EnvFor(ks)
    /\ Open("new", m, ks, new(vaultFile, ks, keyFiles, env))

\* let m = SecretsManager::load(VaultPath, ks)
Load(m, ks, env) ==
    /\ env \in EnvFor(ks)
    /\ Open("load", m, ks, load(vaultFile, ks, keyFiles, env))

\* m.save()
Save(m, ioOk) ==
    /\ managers[m].open
    /\ LET r == save(managers[m], vaultFile, ioOk)
       IN  /\ vaultFile' = r.file
           /\ Count(r.res = "Ok")
           /\ last' = Last("save", m, hist[m].src, "", vaultFile.kind, r.res,
                           Garbage, 1, FALSE)
    /\ UNCHANGED <<keyFiles, managers, hist, exported, derived>>

\* m.export_keys(p)
ExportKeys(m, p, ioOk) ==
    /\ managers[m].open
    /\ LET r == export_keys(managers[m], keyFiles[p], ioOk)
       IN  /\ keyFiles' = [keyFiles EXCEPT ![p] = r.file]
           /\ Count(r.res = "Ok")
           /\ exported' =
                IF r.res = "Ok"
                THEN [exported EXCEPT
                        ![p] = [some |-> TRUE, val |-> managers[m].keys]]
                ELSE exported
           /\ last' = Last("export_keys", m, File(p), "",
                           vaultFile.kind, r.res, Garbage, 1, FALSE)
    /\ UNCHANGED <<vaultFile, managers, hist, derived>>

\* m.set(n, v), the random source returning nonce
Set(m, n, v, nonce) ==
    /\ managers[m].open
    /\ managers' =
         [managers EXCEPT
            ![m] = [set(managers[m], n, v, nonce) EXCEPT
                      !.vault.secrets[n].by = hist[m].src]]
    /\ last' = Last("set", m, hist[m].src, n, vaultFile.kind, "Ok", v, 0, FALSE)
    /\ Count(TRUE)
    /\ UNCHANGED <<vaultFile, keyFiles, hist, exported, derived>>

\* m.retrieve(n)
Retrieve(m, n, wellFormed) ==
    /\ managers[m].open
    /\ LET r == retrieve(managers[m], n, wellFormed)
       IN  last' = Last("retrieve", m, hist[m].src, n, vaultFile.kind, r.res,
                        r.val, 0, r.decrypted)
    /\ Count(FALSE)
    /\ UNCHANGED <<vaultFile, keyFiles, managers, hist, exported, derived>>

\* Someone else changes one field of the stored entry of n in the vault file.
Tamper(n, field) ==
    /\ vaultFile.kind = "Vault"
    /\ vaultFile.vault.secrets[n].present
    /\ LET e == vaultFile.vault.secrets[n]
       IN  \E e2 \in
              CASE field = "nonce" ->
                     {[e EXCEPT !.nonce = x] : x \in (0..MaxNonce) \ {e.nonce}}
                [] field = "ct" -> {[e EXCEPT !.ct.flip = ~e.ct.flip]}
                [] field = "mac" -> {[e EXCEPT !.mac.flip = ~e.mac.flip]} :
              vaultFile' = [vaultFile EXCEPT !.vault.secrets[n] = e2]
    /\ last' = Last("tamper", "sman", NoSource, n, vaultFile.kind, "Ok", Garbage,
                    0, FALSE)
    /\ Count(TRUE)
    /\ UNCHANGED <<keyFiles, managers, hist, exported, derived>>

Next ==
    \/ \E m \in Managers, ks \in KeySource : \E env \in EnvFor(ks) : New(m, ks, env)
    \/ \E m \in Managers, ks \in KeySource : \E env \in EnvFor(ks) : Load(m, ks, env)
    \/ \E m \in Managers, ioOk \in BOOLEAN : Save(m, ioOk)
    \/ \E m \in Managers, p \in KeyPaths, ioOk \in BOOLEAN : ExportKeys(m, p, ioOk)
    \/ \E m \in Managers, n \in Names, v \in Values, nonce \in Nonces :
          Set(m, n, v, nonce)
    \/ \E m \in Managers, n \in Names, wellFormed \in BOOLEAN :
          Retrieve(m, n, wellFormed)
    \/ \E n \in Names, field \in {"nonce", "ct", "mac"} : Tamper(n, field)

Spec == Init /\ [][Next]_vars

(* ------------------------------ claims --------------------------------- *)

\* The entry manager m holds under name n.
EntryOf(m, n) == managers[m].vault.secrets[n]

\* The entry is exactly what encryption produced: no field was changed.
Genuine(e) == ~e.ct.flip /\ ~e.mac.flip /\ e.nonce = e.ct.nonce

\* The entry was written under the key material k.
WrittenUnder(e, k) == e.ct.key = k.encryption /\ e.mac.key = k.hmac

\* The key file at p holds at least both keys.
CompleteKeyFile(p) ==
    keyFiles[p].exists /\ Len(keyFiles[p].bytes) >= KEY_COUNT * KEY_LENGTH

Opened == last.op \in {"new", "load"}

\* C1: new fails whenever a vault file already exists at the path, and the
\* file is left as it was; it succeeds only when no vault exists there.
C1_NewFailsIfVaultExists ==
    last.op = "new" =>
        /\ last.pre # "Absent" => last.res # "Ok"
        /\ last.res = "Ok" => last.pre = "Absent"
        /\ vaultFile.kind = last.pre

\* C2: new establishes a salt before the key source is resolved, whatever the
\* key source: the manager new returns holds a vault whose salt is present,
\* and new with a password on a path without a vault never fails with the
\* missing-salt error.
C2_NewEstablishesSalt ==
    last.op = "new" =>
        /\ last.res = "Ok" => managers[last.m].vault.iv.some
        /\ (last.src.kind = "Password" /\ last.pre = "Absent")
              => last.res # "MissingVaultIV"

\* C5: resolving a password against a vault without a salt returns
\* MissingVaultIV (only then), so no manager opened with a password lacks a
\* salt; resolving File or Generate never returns MissingVaultIV and
\* gives, without a salt, the result it gives with one (File: Ok exactly when
\* the key file is complete; Generate: Ok unless the random source fails).
C5_MissingSalt ==
    /\ (Opened /\ last.pre = "Vault" /\ last.src.kind = "Password"
          /\ ~vaultFile.vault.iv.some) => last.res = "MissingVaultIV"
    /\ last.res = "MissingVaultIV" =>
          /\ Opened /\ last.src.kind = "Password"
          /\ ~vaultFile.vault.iv.some
    /\ \A m \in Managers :
          (managers[m].open /\ hist[m].src.kind = "Password")
             => managers[m].vault.iv.some
    /\ (Opened /\ last.pre = "Vault" /\ last.src.kind = "File")
          => (last.res = "Ok" <=> CompleteKeyFile(last.src.path))
    /\ (Opened /\ last.pre = "Vault" /\ last.src.kind = "Generate")
          => last.res \in {"Ok", "panic"}

\* C5 witness: a password was resolved against a saltless vault.
C5_Witness ==
    /\ last.op = "load" /\ last.src.kind = "Password"
    /\ last.pre = "Vault" /\ ~vaultFile.vault.iv.some
    /\ last.res = "MissingVaultIV"

\* C6: a manager opened with File(p) after export_keys(p) holds the
\* encryption key and the auth key of the exporting manager, and the key file
\* is the encryption key bytes followed by the auth key bytes.
C6_ExportImport ==
    /\ \A m \in Managers :
          (managers[m].open /\ hist[m].imported.some)
             => /\ hist[m].keys0 = hist[m].imported.val
                /\ managers[m].keys = hist[m].imported.val
    /\ \A p \in KeyPaths :
          exported[p].some =>
             /\ keyFiles[p].exists
             /\ keyFiles[p].bytes =
                   exported[p].val.encryption \o exported[p].val.hmac

\* C6 witness: a manager was opened from an exported key file whose two keys
\* differ.
C6_Witness ==
    \E m \in Managers :
       /\ managers[m].open /\ hist[m].src.kind = "File"
       /\ hist[m].imported.some
       /\ hist[m].imported.val.encryption # hist[m].imported.val.hmac
       /\ Opened /\ last.res = "Ok"

\* C7: every manager opened with a password against the vault's persisted
\* salt holds the Keys the first derivation from that password and salt gave.
C7_SaltStability ==
    \A m \in Managers :
       (/\ managers[m].open
        /\ hist[m].src.kind = "Password"
        /\ derived[hist[m].src.password].some
        /\ derived[hist[m].src.password].iv = managers[m].vault.iv)
          => managers[m].keys = derived[hist[m].src.password].keys

\* C7 witness: a second load with the password an earlier session wrote and
\* saved an entry under.
C7_Witness ==
    \E m \in Managers, n \in Names :
       /\ last.op = "load" /\ last.res = "Ok" /\ last.src.kind = "Password"
       /\ managers[m].open
       /\ EntryOf(m, n).present /\ EntryOf(m, n).by = last.src
       /\ vaultFile.vault.secrets[n] = EntryOf(m, n)

\* C8: load on a path without a vault returns Io, does not panic, creates no
\* file and binds no manager; load on a file that is no vault returns an
\* error and binds no manager.
C8_LoadMissing ==
    last.op = "load" =>
        /\ last.pre = "Absent" =>
              /\ last.res = "Io"
              /\ vaultFile.kind = "Absent"
              /\ ~managers[last.m].open
        /\ last.pre = "Invalid" =>
              /\ last.res \notin {"Ok", "panic"}
              /\ vaultFile.kind = "Invalid"
              /\ ~managers[last.m].open

\* C8 witness: load with a password found no vault file.
C8_Witness ==
    /\ last.op = "load" /\ last.pre = "Absent" /\ last.src.kind = "Password"
    /\ last.res = "Io"

\* C9 as stated: no operation ends in a panic.
C9_NoPanic == last.res # "panic"

\* C9 amended: a missing or invalid vault file, a missing or short key file,
\* a missing salt and a failed save or export_keys come back as typed errors,
\* each after exactly the calls up to the failing one (nothing is retried);
\* only a random-source failure of Generate and a key-derivation failure of
\* Password end in a panic.
C9_TypedErrors ==
    /\ last.res \in {"Ok", "Io", "Serialization", "MissingVaultIV", "NotFound",
                     "AuthenticationFailure", "panic"}
    /\ last.res = "panic" =>
          /\ Opened /\ last.pre = "Vault"
          /\ \/ last.src.kind = "Generate" /\ last.calls \in {2, 3}
             \/ /\ last.src.kind = "Password" /\ last.calls = 2
                /\ vaultFile.vault.iv.some
    /\ (Opened /\ last.pre = "Absent") => (last.res = "Io" /\ last.calls = 1)
    /\ (Opened /\ last.pre = "Invalid")
          => (last.res = "Serialization" /\ last.calls = 1)
    /\ (Opened /\ last.pre = "Vault" /\ last.src.kind = "File"
          /\ ~CompleteKeyFile(last.src.path))
          => /\ last.res = "Io"
             /\ last.calls =
                   IF ~keyFiles[last.src.path].exists THEN 2
                   ELSE IF Len(keyFiles[last.src.path].bytes) < KEY_LENGTH THEN 3
                   ELSE 4
    /\ (Opened /\ last.pre = "Vault" /\ last.src.kind = "Password"
          /\ ~vaultFile.vault.iv.some)
          => (last.res = "MissingVaultIV" /\ last.calls = 1)
    /\ last.op \in {"save", "export_keys"}
          => (last.res \in {"Ok", "Io"} /\ last.calls = 1)

\* C9 witness: a key file that holds the first key only made load fail.
C9_Witness ==
    /\ last.op = "load" /\ last.src.kind = "File" /\ last.pre = "Vault"
    /\ keyFiles[last.src.path].exists
    /\ Len(keyFiles[last.src.path].bytes) = KEY_LENGTH
    /\ last.res = "Io"

\* C10: an open manager's salt and Keys are those it was opened with, whatever
\* set, retrieve, save and export_keys calls followed, and the salt save wrote
\* is that salt.
C10_SaltAndKeysImmutable ==
    /\ \A m \in Managers :
          managers[m].open
             => /\ managers[m].vault.iv = hist[m].iv0
                /\ managers[m].keys = hist[m].keys0
    /\ (last.op = "save" /\ last.res = "Ok")
          => /\ vaultFile.kind = "Vault"
             /\ vaultFile.vault.iv = hist[last.m].iv0

\* C10 witness: a manager with a salt saved after a set and an export_keys.
C10_Witness ==
    /\ last.op = "save" /\ last.res = "Ok"
    /\ managers[last.m].vault.iv.some
    /\ \E n \in Names : EntryOf(last.m, n).present
    /\ \E p \in KeyPaths : exported[p].some

\* C3 as stated: retrieve of an unmodified entry returns the value that was
\* set whenever the manager was opened with the key source the entry was
\* written under, be it File, Password or Generate.
C3_RoundTripSameSource ==
    last.op = "retrieve" =>
       LET e == EntryOf(last.m, last.name)
       IN  (e.present /\ Genuine(e) /\ e.by = hist[last.m].src)
              => (last.res = "Ok" /\ last.val = e.ct.pt)

\* C3 amended: retrieve of an unmodified entry returns the value that was set
\* whenever the manager holds the Keys the entry was written under (the same
\* session, or a later one whose key source resolved to them), and always
\* when both sessions were opened with the same password.
C3_RoundTrip ==
    last.op = "retrieve" =>
       LET e == EntryOf(last.m, last.name)
       IN  (/\ e.present /\ Genuine(e)
            /\ \/ WrittenUnder(e, managers[last.m].keys)
               \/ e.by = hist[last.m].src /\ e.by.kind = "Password")
              => (last.res = "Ok" /\ last.val = e.ct.pt /\ last.val \in Values)

\* C3 witness: a value set and saved under generated keys came back in a later
\* session opened from the exported key file.
C3_Witness ==
    /\ last.op = "retrieve" /\ last.res = "Ok" /\ last.val \in Values
    /\ hist[last.m].src.kind = "File"
    /\ EntryOf(last.m, last.name).by.kind = "Generate"
    /\ vaultFile.vault.secrets[last.name] = EntryOf(last.m, last.name)

\* C4 as stated: retrieve of an entry whose nonce, ciphertext or MAC was
\* changed, or under another auth key than the one it was written with, fails
\* with the authentication error before anything is decrypted; and retrieve
\* never returns a value other than the one that was set.
C4_TamperDetection ==
    last.op = "retrieve" =>
       LET e == EntryOf(last.m, last.name)
       IN  e.present =>
              /\ (~Genuine(e) \/ e.mac.key # managers[last.m].keys.hmac)
                    => (last.res = "AuthenticationFailure" /\ ~last.decrypted)
              /\ last.res = "Ok" => last.val = e.ct.pt

\* C4 amended: as stated, except that a returned value is the one that was
\* set only if the manager's encryption key is the one the entry was
\* encrypted under (the MAC covers nonce and ciphertext under the auth key
\* alone).
C4_AuthBeforeDecrypt ==
    last.op = "retrieve" =>
       LET e == EntryOf(last.m, last.name)
       IN  e.present =>
              /\ (~Genuine(e) \/ e.mac.key # managers[last.m].keys.hmac)
                    => (last.res = "AuthenticationFailure" /\ ~last.decrypted)
              /\ last.res = "AuthenticationFailure"
                    => (~Genuine(e) \/ e.mac.key # managers[last.m].keys.hmac)
              /\ (last.res = "Ok" /\ e.ct.key = managers[last.m].keys.encryption)
                    => last.val = e.ct.pt

\* C4 witness: an entry changed in the vault file failed authentication under
\* the auth key it was written with.
C4_Witness ==
    /\ last.op = "retrieve" /\ last.res = "AuthenticationFailure"
    /\ ~last.decrypted
    /\ ~Genuine(EntryOf(last.m, last.name))
    /\ EntryOf(last.m, last.name).mac.key = managers[last.m].keys.hmac

====
